---- MODULE Spec2Model ----
(***************************************************************************)
(* Outflow watcher (src/index.js): a single polling loop that follows the  *)
(* signatures of one watched account, keeps a bounded newest-first window  *)
(* of outflow transactions, and sends one Discord alert when enough window *)
(* members satisfy range + five-digits, then resets window and anchor.     *)
(*                                                                         *)
(* Ledger: the watched account's signature list is append-only; the        *)
(* signature of the i-th transaction is the integer i, so ledger order is  *)
(* integer order and NoSig = 0 stands for JavaScript null.                 *)
(* Amounts are carried in units of 1000 lamports so that 20 SOL fits the   *)
(* model checker's 32-bit integers; every amount used is a multiple of     *)
(* 1000 lamports, for which the code's arithmetic is exactly the one here. *)
(***************************************************************************)
EXTENDS Integers, Sequences, FiniteSets, TLC

\* ---------------------------------------------------------------- bounds
MaxLedger == 4
MaxFaults == 1

\* ---------------------------------------------------------- configuration
\* Read from the environment once, at start (lines 27-33): the window
\* capacity and the threshold are held in conf, fixed by Init.
SIG_FETCH_LIMIT == 2
\* MIN_SOL = 0.1 SOL, held in tenths of a SOL; MAX_SOL = 20 SOL
MIN_SOL_TENTHS == 1
MAX_SOL == 20
\* LAMPORTS_PER_SOL (1e9) and the divisor 100000 of the 4dp cut, both / 1000
LAMPORTS_PER_SOL == 1000000
CUT_DIVISOR == 100
FIVE_DIGITS_MAX == 99999
SOL4_FRAC == 10000

NoSig == 0
NullKey == <<NoSig>>

Min(a, b) == IF a < b THEN a ELSE b
Abs(x) == IF x < 0 THEN -x ELSE x
Range(s) == {s[i] : i \in DOMAIN s}
Reverse(s) == [i \in 1..Len(s) |-> s[Len(s) - i + 1]]
Take(s, n) == SubSeq(s, 1, Min(n, Len(s)))
RECURSIVE SumSeq(_)
SumSeq(s) == IF s = <<>> THEN 0 ELSE Head(s) + SumSeq(Tail(s))

\* ------------------------------------------------------------ transactions
\* What the RPC returns for a signature: the system transfers whose source is
\* the watched account, and the account's pre/post balance.
TxKinds == {"in", "pay", "dust"}
TxOf(kind) ==
    CASE kind = "pay"  -> [isNull |-> FALSE, transfers |-> <<1234500>>, pre |-> 9000000, post |-> 7765495]
      [] kind = "dust" -> [isNull |-> FALSE, transfers |-> <<50000>>, pre |-> 9000000, post |-> 8949995]
      [] kind = "pay2" -> [isNull |-> FALSE, transfers |-> <<2345600>>, pre |-> 9000000, post |-> 6654395]
      [] OTHER         -> [isNull |-> FALSE, transfers |-> <<>>, pre |-> 1000, post |-> 2000]
NullTx == [isNull |-> TRUE, transfers |-> <<>>, pre |-> 0, post |-> 0]

decodeSystemTransfersOutWithSum(tx) ==
    IF tx.isNull THEN [lamportsOut |-> 0, transfersOut |-> <<>>]
    ELSE [lamportsOut |-> SumSeq(tx.transfers), transfersOut |-> tx.transfers]

getNetOutLamportsFallback(tx) ==
    IF tx.isNull THEN 0
    ELSE LET delta == tx.post - tx.pre IN IF delta >= 0 THEN 0 ELSE -delta

\* lines 370-377: the amount recorded for a transaction, 0 when it is skipped
OutLamports(tx) ==
    LET lamportsOut == decodeSystemTransfersOutWithSum(tx).lamportsOut
        outLamports == IF lamportsOut <= 0 THEN getNetOutLamportsFallback(tx) ELSE lamportsOut
    IN IF outLamports <= 0 THEN 0 ELSE outLamports

\* --------------------------------------------------------------- classifier
\* lamportsToSol4String (lines 68-73): the string "intPart.fracPart", held as
\* the pair of its two numbers
lamportsToSol4String(lamports) ==
    LET scaled == Abs(lamports) \div CUT_DIVISOR
    IN <<scaled \div SOL4_FRAC, scaled % SOL4_FRAC>>

\* variant of isFiveDigitsLamports_4dpCut: the amount is rounded to 4 decimals
isFiveDigitsLamports_4dpRound(lamports) ==
    ((Abs(lamports) + (CUT_DIVISOR \div 2)) \div CUT_DIVISOR) <= FIVE_DIGITS_MAX

\* lines 77-80
isFiveDigitsLamports_4dpCut(lamports) ==
    (Abs(lamports) \div CUT_DIVISOR) <= FIVE_DIGITS_MAX

\* variant of inSolRangeLamports: MIN_SOL itself is out of range
inSolRangeLamportsAboveMin(lamports) ==
    /\ Abs(lamports) * 10 > MIN_SOL_TENTHS * LAMPORTS_PER_SOL
    /\ Abs(lamports) <= MAX_SOL * LAMPORTS_PER_SOL

\* sol >= MIN_SOL && sol <= MAX_SOL with sol = |lamports| / LAMPORTS_PER_SOL
inSolRangeLamports(lamports) ==
    /\ Abs(lamports) * 10 >= MIN_SOL_TENTHS * LAMPORTS_PER_SOL
    /\ Abs(lamports) <= MAX_SOL * LAMPORTS_PER_SOL

makeAlertKey(outflows) == [i \in 1..Len(outflows) |-> outflows[i].signature]

InRange(x) == inSolRangeLamports(x.outLamports)
FiveDigits(x) == isFiveDigitsLamports_4dpCut(x.outLamports)
Considered(outflows) == SelectSeq(outflows, InRange)
Matches(outflows) == SelectSeq(Considered(outflows), FiveDigits)

\* ------------------------------------------------------------------- ledger
getSignaturesForAddress(l, limit) ==
    [i \in 1..Min(limit, Len(l)) |-> Len(l) - i + 1]

fetchOldestSignature(l) == IF Len(l) > 0 THEN 1 ELSE NoSig

fetchNewestSignature(l) ==
    LET sigs == getSignaturesForAddress(l, 1)
    IN IF Len(sigs) > 0 THEN sigs[1] ELSE NoSig

\* variants of fetchNewSignatures: no stop at the anchor; stop one element late
fetchNewSignaturesNoBreak(l, anchorSig) ==
    LET sigs == getSignaturesForAddress(l, SIG_FETCH_LIMIT)
    IN IF Len(sigs) = 0 THEN <<>>
       ELSE IF anchorSig = NoSig THEN <<>>
       ELSE sigs

fetchNewSignaturesLateBreak(l, anchorSig) ==
    LET sigs == getSignaturesForAddress(l, SIG_FETCH_LIMIT)
        hits == {i \in DOMAIN sigs : sigs[i] = anchorSig}
        stop == IF hits = {} THEN Len(sigs)
                ELSE CHOOSE i \in hits : \A j \in hits : i <= j
    IN IF Len(sigs) = 0 THEN <<>>
       ELSE IF anchorSig = NoSig THEN <<>>
       ELSE SubSeq(sigs, 1, stop)

\* variant of fetchNewSignatures: a null anchor does not end the call (no line 317)
fetchNewSignaturesNullAnchor(l, anchorSig) ==
    LET sigs == getSignaturesForAddress(l, SIG_FETCH_LIMIT)
        hits == {i \in DOMAIN sigs : sigs[i] = anchorSig}
        stop == IF hits = {} THEN Len(sigs) + 1
                ELSE CHOOSE i \in hits : \A j \in hits : i <= j
    IN IF Len(sigs) = 0 THEN <<>>
       ELSE SubSeq(sigs, 1, stop - 1)

fetchNewSignatures(l, anchorSig) ==
    LET sigs == getSignaturesForAddress(l, SIG_FETCH_LIMIT)
        hits == {i \in DOMAIN sigs : sigs[i] = anchorSig}
        stop == IF hits = {} THEN Len(sigs) + 1
                ELSE CHOOSE i \in hits : \A j \in hits : i <= j
    IN IF Len(sigs) = 0 THEN <<>>
       ELSE IF anchorSig = NoSig THEN <<>>
       ELSE SubSeq(sigs, 1, stop - 1)

\* -------------------------------------------------------------------- state
DefaultState == [anchorSig |-> NoSig, outflows |-> <<>>, lastAlertKey |-> NullKey]

\* state.json: absent, or present with a text. The text JSON.stringify
\* produces is held as the sequence of the numbers it spells out: the cursor,
\* the number of records, four numbers per record (signature, outLamports and
\* the two parts of outflowSol4; the ts field is not modelled), the length of
\* lastAlertKey and its signatures. The field inserted is a history kept
\* beside the text.
AbsentFile == [kind |-> "absent", text |-> <<>>, inserted |-> <<>>]
\* a file truncated by the open of a write that then wrote nothing
CorruptFile == [kind |-> "present", text |-> <<>>, inserted |-> <<>>]
RecordWidth == 4

RecordText(x) == <<x.signature, x.outLamports, x.outflowSol4[1], x.outflowSol4[2]>>

\* variant of JSONstringify: the lastAlertKey field is written as null
JSONstringifyNullKey(st) ==
    LET n == Len(st.outflows)
    IN <<st.anchorSig, n>>
       \o [i \in 1..(RecordWidth * n) |->
             RecordText(st.outflows[((i - 1) \div RecordWidth) + 1])[((i - 1) % RecordWidth) + 1]]
       \o <<Len(NullKey)>> \o NullKey

\* JSON.stringify(state, null, 2), line 55
JSONstringify(st) ==
    LET n == Len(st.outflows)
    IN <<st.anchorSig, n>>
       \o [i \in 1..(RecordWidth * n) |->
             RecordText(st.outflows[((i - 1) \div RecordWidth) + 1])[((i - 1) % RecordWidth) + 1]]
       \o <<Len(st.lastAlertKey)>> \o st.lastAlertKey

\* JSON.parse (line 47) returns for a text exactly when the text is complete
WellFormed(text) ==
    /\ Len(text) >= 3
    /\ text[2] >= 0
    /\ Len(text) >= 3 + RecordWidth * text[2]
    /\ Len(text) = 3 + RecordWidth * text[2] + text[3 + RecordWidth * text[2]]

JSONparse(text) ==
    LET n == text[2]
        at(i, k) == text[2 + RecordWidth * (i - 1) + k]
        keyAt == 3 + RecordWidth * n
    IN [anchorSig |-> text[1],
        outflows |-> [i \in 1..n |-> [signature |-> at(i, 1), outLamports |-> at(i, 2),
                                      outflowSol4 |-> <<at(i, 3), at(i, 4)>>]],
        lastAlertKey |-> [i \in 1..text[keyAt] |-> text[keyAt + i]]]

VARIABLES
    env,         \* process.env: the three required variables
    conf,        \* WINDOW_OUTFLOWS and REQUIRED_MATCH of this deployment
    ledger,      \* kinds of the watched account's transactions, oldest first
    state,       \* the in-memory state object
    file,        \* state.json
    pc,          \* where main() stands
    newSigs,     \* result of the cycle's poll, newest first
    idx,         \* position in ordered of the signature examined next
    alerts,      \* history: the AlertKey of every sendDiscordText call
    inserted,    \* history: records unshifted into the window since it was last emptied
    polled,      \* history: signatures returned by earlier polls of this run
    cyc,         \* history of this cycle: triggered, delivery threw, re-anchored, newest signature then
    preExisting, \* history: newest signature when the process was first started
    faults,      \* failed ledger reads and state writes so far
    probe        \* the function under study, its argument and its result (function studies)

vars == <<env, conf, ledger, state, file, pc, newSigs, idx, alerts, inserted, polled, cyc,
          preExisting, faults, probe>>

WINDOW_OUTFLOWS == conf.WINDOW_OUTFLOWS
REQUIRED_MATCH == conf.REQUIRED_MATCH
SmallConf == [WINDOW_OUTFLOWS |-> 2, REQUIRED_MATCH |-> 1]

NoCycle == [triggered |-> FALSE, sendFailed |-> FALSE, reanchored |-> FALSE, newest |-> NoSig]

\* The account's history when the watcher is first started: none, or one
\* transfer out of the watched account.
InitialLedgers == {<<>>, <<"pay">>}

\* The watcher runs no function study
NoProbe == [fn |-> "none", arg |-> 0, out |-> 0]

\* lines 15-23: a required variable is undefined, the empty string, or set.
\* The environments are the complete one and those with one variable
\* undefined or empty.
RequiredEnv == {"RPC_URL", "WATCH_ADDRESS", "DISCORD_WEBHOOK_URL"}
GoodEnv == [n \in RequiredEnv |-> "set"]
Environments ==
    {GoodEnv} \cup {[GoodEnv EXCEPT ![n] = v] : n \in RequiredEnv, v \in {"undefined", ""}}

\* variant of mustEnv: the empty string is accepted
mustEnvAcceptsEmpty(e, name) == e[name] # "undefined"

\* mustEnv (lines 15-19): TRUE when it returns, FALSE when it throws
mustEnv(e, name) == ~(e[name] = "undefined" \/ e[name] = "")

Init ==
    /\ env \in Environments
    /\ conf = SmallConf
    /\ ledger \in InitialLedgers
    /\ state = DefaultState
    /\ file = AbsentFile
    /\ pc = "start"
    /\ newSigs = <<>>
    /\ idx = 0
    /\ alerts = <<>>
    /\ inserted = <<>>
    /\ polled = {}
    /\ cyc = NoCycle
    /\ preExisting = Len(ledger)
    /\ faults = 0
    /\ probe = NoProbe

\* saveState: "ok" writes the snapshot, "fail" leaves the file as it was,
\* "torn" leaves a truncated file (the write failed or stopped after the
\* truncation); neither failure raises.
SaveOutcomes == {"ok", "fail", "torn"}
FaultCost(outcome) == IF outcome = "ok" THEN 0 ELSE 1
saveState(st, ins, f, outcome) ==
    CASE outcome = "ok"   -> [kind |-> "present", text |-> JSONstringify(st), inserted |-> ins]
      [] outcome = "fail" -> f
      [] OTHER            -> CorruptFile

\* loadState, lines 44-52: the parsed object is spread over the default state
\* (it carries the three fields); an absent file, a read or a parse that
\* throws leave the default state
loadState(f) ==
    IF f.kind = "present" /\ WellFormed(f.text) THEN JSONparse(f.text) ELSE DefaultState

\* variant of InsertOutflow: the trim keeps the oldest records
InsertOutflowDropNewest(outflows, rec) ==
    LET grown == <<rec>> \o outflows
    IN IF Len(grown) > WINDOW_OUTFLOWS THEN SubSeq(grown, 2, WINDOW_OUTFLOWS + 1) ELSE grown

\* lines 379-389
InsertOutflow(outflows, rec) ==
    LET grown == <<rec>> \o outflows
    IN IF Len(grown) > WINDOW_OUTFLOWS THEN SubSeq(grown, 1, WINDOW_OUTFLOWS) ELSE grown

\* ------------------------------------------------------------------ actions
\* The ledger gains a transaction of the watched account. The loop can observe
\* the ledger only through its awaited calls, so the synchronous stretches
\* ("start", "boot", "polled", "eval") need no interleaving, and after the
\* abort there is no process to observe it.
AppendTx ==
    /\ pc \notin {"start", "aborted", "boot", "polled", "eval"}
    /\ Len(ledger) < MaxLedger
    /\ \E k \in TxKinds : ledger' = Append(ledger, k)
    /\ UNCHANGED <<probe, env, conf, state, file, pc, newSigs, idx, alerts, inserted, polled, cyc,
                   preExisting, faults>>

\* lines 21-23 return for the three variables: the module goes on to main()
Startup ==
    /\ pc = "start"
    /\ \A n \in RequiredEnv : mustEnv(env, n)
    /\ pc' = "boot"
    /\ UNCHANGED <<probe, env, conf, ledger, state, file, newSigs, idx, alerts, inserted, polled,
                   cyc, preExisting, faults>>

\* one of lines 21-23 throws while the module is loaded: main() is never called
StartupAborts ==
    /\ pc = "start"
    /\ \E n \in RequiredEnv : ~mustEnv(env, n)
    /\ pc' = "aborted"
    /\ UNCHANGED <<probe, env, conf, ledger, state, file, newSigs, idx, alerts, inserted, polled,
                   cyc, preExisting, faults>>

\* variant of LoadState: a read or a parse that throws is not caught and ends
\* the process
LoadStateUncaught ==
    /\ pc = "boot"
    /\ \E readable \in BOOLEAN :
        LET cost == IF readable THEN 0 ELSE 1
            thrown == file.kind = "present" /\ (~readable \/ ~WellFormed(file.text))
            loaded == IF thrown THEN DefaultState ELSE loadState(file)
        IN /\ (~readable) => file.kind = "present"
           /\ faults + cost <= MaxFaults
           /\ faults' = faults + cost
           /\ state' = loaded
           /\ inserted' = IF thrown \/ file.kind = "absent" THEN <<>> ELSE file.inserted
           /\ pc' = IF thrown THEN "exited"
                    ELSE IF loaded.anchorSig = NoSig THEN "warmup" ELSE "poll"
    /\ UNCHANGED <<probe, env, conf, ledger, file, newSigs, idx, alerts, polled, cyc, preExisting>>

\* variant of LoadState: the loaded lastAlertKey is dropped
LoadStateForgetsKey ==
    /\ pc = "boot"
    /\ \E readable \in BOOLEAN :
        LET cost == IF readable THEN 0 ELSE 1
            loaded == IF readable THEN [loadState(file) EXCEPT !.lastAlertKey = NullKey]
                      ELSE DefaultState
        IN /\ (~readable) => file.kind = "present"
           /\ faults + cost <= MaxFaults
           /\ faults' = faults + cost
           /\ state' = loaded
           /\ inserted' = IF readable /\ file.kind = "present" /\ WellFormed(file.text)
                          THEN file.inserted ELSE <<>>
           /\ pc' = IF loaded.anchorSig = NoSig THEN "warmup" ELSE "poll"
    /\ UNCHANGED <<probe, env, conf, ledger, file, newSigs, idx, alerts, polled, cyc, preExisting>>

\* main(), line 329 and the test of line 342. The read of line 47 returns the
\* text or throws (the file cannot be read); the throw is caught at line 50.
LoadState ==
    /\ pc = "boot"
    /\ \E readable \in BOOLEAN :
        LET cost == IF readable THEN 0 ELSE 1
            loaded == IF readable THEN loadState(file) ELSE DefaultState
        IN /\ (~readable) => file.kind = "present"
           /\ faults + cost <= MaxFaults
           /\ faults' = faults + cost
           /\ state' = loaded
           /\ inserted' = IF readable /\ file.kind = "present" /\ WellFormed(file.text)
                          THEN file.inserted ELSE <<>>
           /\ pc' = IF loaded.anchorSig = NoSig THEN "warmup" ELSE "poll"
    /\ UNCHANGED <<probe, env, conf, ledger, file, newSigs, idx, alerts, polled, cyc, preExisting>>

\* lines 343-346
WarmUp ==
    /\ pc = "warmup"
    /\ \E outcome \in SaveOutcomes :
        /\ faults + FaultCost(outcome) <= MaxFaults
        /\ faults' = faults + FaultCost(outcome)
        /\ state' = [anchorSig |-> fetchNewestSignature(ledger), outflows |-> <<>>,
                     lastAlertKey |-> NullKey]
        /\ file' = saveState(state', <<>>, file, outcome)
    /\ inserted' = <<>>
    /\ pc' = "poll"
    /\ UNCHANGED <<probe, env, conf, ledger, newSigs, idx, alerts, polled, cyc, preExisting>>

\* line 343 throws: main() rejects, lines 499-502 exit the process
WarmUpFails ==
    /\ pc = "warmup"
    /\ faults < MaxFaults
    /\ faults' = faults + 1
    /\ pc' = "exited"
    /\ UNCHANGED <<probe, env, conf, ledger, state, file, newSigs, idx, alerts, inserted, polled, cyc,
                   preExisting>>

\* line 356
Poll ==
    /\ pc = "poll"
    /\ newSigs' = fetchNewSignatures(ledger, state.anchorSig)
    /\ polled' = polled \cup Range(newSigs)
    /\ pc' = "polled"
    /\ UNCHANGED <<probe, env, conf, ledger, state, file, idx, alerts, inserted, cyc, preExisting,
                   faults>>

\* line 356 throws: caught at line 491
PollFails ==
    /\ pc = "poll"
    /\ faults < MaxFaults
    /\ faults' = faults + 1
    /\ polled' = polled \cup Range(newSigs)
    /\ newSigs' = <<>>
    /\ pc' = "sleep"
    /\ UNCHANGED <<probe, env, conf, ledger, state, file, idx, alerts, inserted, cyc, preExisting>>

\* variant of NewAnchor: the oldest signature of the batch
OldestOfBatch(sigs) == sigs[Len(sigs)]

\* line 360
NewAnchor(sigs) == sigs[1]

\* variant of Ordered: the batch is walked as fetched, newest first
OrderedAsFetched(sigs) == sigs

\* line 362
Ordered(sigs) == Reverse(sigs)

\* variant of Advance: the cursor is not moved (no line 360)
AdvanceKeepsCursor ==
    /\ pc = "polled"
    /\ IF Len(newSigs) > 0
       THEN /\ idx' = 1
            /\ pc' = "getTx"
       ELSE /\ pc' = "eval"
            /\ UNCHANGED idx
    /\ UNCHANGED <<probe, env, conf, ledger, state, file, newSigs, alerts, inserted, polled, cyc,
                   preExisting, faults>>

\* lines 359-362
Advance ==
    /\ pc = "polled"
    /\ IF Len(newSigs) > 0
       THEN /\ state' = [state EXCEPT !.anchorSig = NewAnchor(newSigs)]
            /\ idx' = 1
            /\ pc' = "getTx"
       ELSE /\ pc' = "eval"
            /\ UNCHANGED <<state, idx>>
    /\ UNCHANGED <<probe, env, conf, ledger, file, newSigs, alerts, inserted, polled, cyc, preExisting,
                   faults>>

\* The record of lines 379-384 for signature sig
OutflowRecord(sig, tx) ==
    [signature |-> sig, outLamports |-> OutLamports(tx),
     outflowSol4 |-> lamportsToSol4String(OutLamports(tx))]

\* lines 363-392 for the idx-th signature of ordered; after the last one
\* saveState runs (line 392)
GetTx ==
    /\ pc = "getTx"
    /\ \E got \in {"tx", "null"}, outcome \in SaveOutcomes :
        LET sig == Ordered(newSigs)[idx]
            tx == IF got = "tx" THEN TxOf(ledger[sig]) ELSE NullTx
            rec == OutflowRecord(sig, tx)
            isOut == OutLamports(tx) > 0
            last == (idx = Len(newSigs))
            cost == (IF got = "null" THEN 1 ELSE 0) + (IF last THEN FaultCost(outcome) ELSE 0)
        IN /\ (~last) => outcome = "ok"
           /\ faults + cost <= MaxFaults
           /\ faults' = faults + cost
           /\ state' = IF isOut
                       THEN [state EXCEPT !.outflows = InsertOutflow(state.outflows, rec)]
                       ELSE state
           /\ inserted' = IF isOut THEN Append(inserted, rec) ELSE inserted
           /\ idx' = idx + 1
           /\ IF last
              THEN /\ file' = saveState(state', inserted', file, outcome)
                   /\ pc' = "eval"
              ELSE /\ pc' = "getTx"
                   /\ UNCHANGED file
    /\ UNCHANGED <<probe, env, conf, ledger, newSigs, alerts, polled, cyc, preExisting>>

\* variant of GetTxFails: the throw of line 364 is not caught and ends the process
GetTxFailsFatal ==
    /\ pc = "getTx"
    /\ faults < MaxFaults
    /\ faults' = faults + 1
    /\ pc' = "exited"
    /\ UNCHANGED <<probe, env, conf, ledger, state, file, newSigs, idx, alerts, inserted, polled, cyc,
                   preExisting>>

\* variant of GetTxFails: the throw sets the cursor back to the signature
\* before the one whose fetch threw
GetTxFailsRewinds ==
    /\ pc = "getTx"
    /\ faults < MaxFaults
    /\ faults' = faults + 1
    /\ state' = [state EXCEPT !.anchorSig = Ordered(newSigs)[idx] - 1]
    /\ pc' = "sleep"
    /\ UNCHANGED <<probe, env, conf, ledger, file, newSigs, idx, alerts, inserted, polled, cyc,
                   preExisting>>

\* line 364 throws: the rest of the batch is abandoned, caught at line 491
GetTxFails ==
    /\ pc = "getTx"
    /\ faults < MaxFaults
    /\ faults' = faults + 1
    /\ pc' = "sleep"
    /\ UNCHANGED <<probe, env, conf, ledger, state, file, newSigs, idx, alerts, inserted, polled, cyc,
                   preExisting>>

\* variant of ShouldTrigger: the window need not be full
ShouldTriggerAnyLength(st) ==
    /\ Len(Matches(st.outflows)) >= REQUIRED_MATCH
    /\ st.lastAlertKey # makeAlertKey(st.outflows)

\* variant of ShouldTrigger: the key of the window is not compared with lastAlertKey
ShouldTriggerNoDedup(st) ==
    /\ Len(st.outflows) >= WINDOW_OUTFLOWS
    /\ Len(Matches(st.outflows)) >= REQUIRED_MATCH

\* lines 401-414: the test that decides a trigger
ShouldTrigger(st) ==
    /\ Len(st.outflows) >= WINDOW_OUTFLOWS
    /\ Len(Matches(st.outflows)) >= REQUIRED_MATCH
    /\ st.lastAlertKey # makeAlertKey(st.outflows)

\* variant of EvaluateTrigger: the dispatch is entered without marking the key
\* (no lines 414-415)
EvaluateTriggerNoMark ==
    /\ pc = "eval"
    /\ ShouldTrigger(state)
    /\ cyc' = [cyc EXCEPT !.triggered = TRUE]
    /\ pc' = "dispatch"
    /\ UNCHANGED <<probe, env, conf, ledger, state, file, newSigs, idx, alerts, inserted, polled,
                   preExisting, faults>>

\* lines 401-416 when the alert is due: mark the key, saveState
EvaluateTrigger ==
    /\ pc = "eval"
    /\ ShouldTrigger(state)
    /\ \E outcome \in SaveOutcomes :
        /\ faults + FaultCost(outcome) <= MaxFaults
        /\ faults' = faults + FaultCost(outcome)
        /\ state' = [state EXCEPT !.lastAlertKey = makeAlertKey(state.outflows)]
        /\ file' = saveState(state', inserted, file, outcome)
    /\ cyc' = [cyc EXCEPT !.triggered = TRUE]
    /\ pc' = "dispatch"
    /\ UNCHANGED <<probe, env, conf, ledger, newSigs, idx, alerts, inserted, polled, preExisting>>

\* lines 401-490 otherwise
EvaluateNoop ==
    /\ pc = "eval"
    /\ ~ShouldTrigger(state)
    /\ pc' = "sleep"
    /\ UNCHANGED <<probe, env, conf, ledger, state, file, newSigs, idx, alerts, inserted, polled, cyc,
                   preExisting, faults>>

\* variant of Dispatch: lastAlertKey is reset, the window is not
DispatchKeepsWindow ==
    /\ pc = "dispatch"
    /\ alerts' = Append(alerts, makeAlertKey(state.outflows))
    /\ \E delivered \in BOOLEAN : cyc' = [cyc EXCEPT !.sendFailed = ~delivered]
    /\ state' = [state EXCEPT !.lastAlertKey = NullKey]
    /\ pc' = "reanchor"
    /\ UNCHANGED <<probe, env, conf, ledger, file, newSigs, idx, polled, preExisting, faults,
                   inserted>>

\* variant of Dispatch: the window is reset, lastAlertKey is not
DispatchKeepsKey ==
    /\ pc = "dispatch"
    /\ alerts' = Append(alerts, makeAlertKey(state.outflows))
    /\ \E delivered \in BOOLEAN : cyc' = [cyc EXCEPT !.sendFailed = ~delivered]
    /\ state' = [state EXCEPT !.outflows = <<>>]
    /\ inserted' = <<>>
    /\ pc' = "reanchor"
    /\ UNCHANGED <<probe, env, conf, ledger, file, newSigs, idx, polled, preExisting, faults>>

\* lines 418-477: the detail fetches for the message (their failures are
\* caught in place), the sendDiscordText call (delivered or thrown, caught at
\* line 471), then the reset of window and lastAlertKey
Dispatch ==
    /\ pc = "dispatch"
    /\ alerts' = Append(alerts, makeAlertKey(state.outflows))
    /\ \E delivered \in BOOLEAN : cyc' = [cyc EXCEPT !.sendFailed = ~delivered]
    /\ state' = [state EXCEPT !.outflows = <<>>, !.lastAlertKey = NullKey]
    /\ inserted' = <<>>
    /\ pc' = "reanchor"
    /\ UNCHANGED <<probe, env, conf, ledger, file, newSigs, idx, polled, preExisting, faults>>

\* lines 478-479
ReAnchor ==
    /\ pc = "reanchor"
    /\ \E outcome \in SaveOutcomes :
        /\ faults + FaultCost(outcome) <= MaxFaults
        /\ faults' = faults + FaultCost(outcome)
        /\ state' = [state EXCEPT !.anchorSig = fetchNewestSignature(ledger)]
        /\ file' = saveState(state', inserted, file, outcome)
    /\ cyc' = [cyc EXCEPT !.reanchored = TRUE, !.newest = Len(ledger)]
    /\ pc' = "sleep"
    /\ UNCHANGED <<probe, env, conf, ledger, newSigs, idx, alerts, inserted, polled, preExisting>>

\* line 478 throws: caught at line 491, line 479 is not reached
ReAnchorFails ==
    /\ pc = "reanchor"
    /\ faults < MaxFaults
    /\ faults' = faults + 1
    /\ cyc' = [cyc EXCEPT !.newest = Len(ledger)]
    /\ pc' = "sleep"
    /\ UNCHANGED <<probe, env, conf, ledger, state, file, newSigs, idx, alerts, inserted, polled,
                   preExisting>>

\* line 495
Sleep ==
    /\ pc = "sleep"
    /\ pc' = "poll"
    /\ cyc' = NoCycle
    /\ UNCHANGED <<probe, env, conf, ledger, state, file, newSigs, idx, alerts, inserted, polled,
                   preExisting, faults>>

\* The process is killed and started again, any number of times: memory is
\* lost, the file stays, and the environment is the one that passed lines
\* 21-23. (A kill at "polled" leaves what a kill at "poll" leaves.)
Crash ==
    /\ pc \notin {"start", "aborted", "boot", "exited", "polled"}
    /\ pc' = "boot"
    /\ state' = DefaultState
    /\ newSigs' = <<>>
    /\ idx' = 0
    /\ inserted' = <<>>
    /\ polled' = {}
    /\ cyc' = NoCycle
    /\ UNCHANGED <<probe, env, conf, ledger, file, alerts, preExisting, faults>>

\* The process that exited at warm-up is started again.
Restart ==
    /\ pc = "exited"
    /\ pc' = "boot"
    /\ state' = DefaultState
    /\ newSigs' = <<>>
    /\ idx' = 0
    /\ inserted' = <<>>
    /\ polled' = {}
    /\ cyc' = NoCycle
    /\ UNCHANGED <<probe, env, conf, ledger, file, alerts, preExisting, faults>>

Next ==
    \/ AppendTx
    \/ Startup
    \/ StartupAborts
    \/ LoadState
    \/ WarmUp
    \/ WarmUpFails
    \/ Poll
    \/ PollFails
    \/ Advance
    \/ GetTx
    \/ GetTxFails
    \/ EvaluateTrigger
    \/ EvaluateNoop
    \/ Dispatch
    \/ ReAnchor
    \/ ReAnchorFails
    \/ Sleep
    \/ Crash
    \/ Restart

Spec == Init /\ [][Next]_vars

\* ------------------------------------------------------------------ claims
Sigs(outflows) == Range(makeAlertKey(outflows))
LastN(s, n) == IF Len(s) <= n THEN s ELSE SubSeq(s, Len(s) - n + 1, Len(s))
NewestFirst(w) == \A i, j \in DOMAIN w : i < j => w[i].signature > w[j].signature
Descending(sigs) == \A i, j \in DOMAIN sigs : i < j => sigs[i] > sigs[j]

\* C1: over any execution, crash and restart included, sendDiscordText is
\* called at most once for any given AlertKey (ordered sequence of window
\* signatures).
AlertKeyDispatchedAtMostOnce ==
    \A i, j \in DOMAIN alerts : i # j => alerts[i] # alerts[j]

\* C2: no signature is a member of the window at two different dispatches, and
\* the window of a later dispatch holds only transactions strictly newer than
\* every transaction of an earlier dispatched window. Stated for the
\* executions in which no ledger read and no state write failed (crashes are
\* still allowed).
NoRecordInTwoDispatches ==
    faults = 0 =>
        \A i, j \in DOMAIN alerts :
            i < j => \A a \in Range(alerts[i]), b \in Range(alerts[j]) : b > a

\* C3: a cycle that triggered ends (reaches its sleep) with an empty window, a
\* null lastAlertKey and the cursor equal to the newest signature of the
\* account when the re-anchor fetch of that cycle was made.
TriggerCycleEndsReset ==
    (pc = "sleep" /\ cyc.triggered) =>
        /\ state.outflows = <<>>
        /\ state.lastAlertKey = NullKey
        /\ state.anchorSig = cyc.newest

\* C4: the window never exceeds WINDOW_OUTFLOWS records and is exactly the
\* min(k, WINDOW_OUTFLOWS) most recently inserted records, newest first, of
\* the k inserted since it was last emptied; in memory and in every snapshot.
WindowOf(w, ins) ==
    /\ Len(w) <= WINDOW_OUTFLOWS
    /\ w = Reverse(LastN(ins, WINDOW_OUTFLOWS))
WindowHoldsMostRecent ==
    /\ WindowOf(state.outflows, inserted)
    /\ WindowOf(loadState(file).outflows, file.inserted)
WindowEvictedOldest ==
    /\ Len(inserted) > WINDOW_OUTFLOWS
    /\ Len(state.outflows) = WINDOW_OUTFLOWS
    /\ state.outflows[1] = inserted[Len(inserted)]

\* C5: within a run every change of the cursor sets it to a strictly newer
\* signature, and from the advance of line 360 to the end of the ingest the
\* cursor is a signature of that cycle's poll result.
CursorNeverBackward ==
    [][/\ (pc' # "boot" /\ state'.anchorSig # state.anchorSig)
            => state'.anchorSig > state.anchorSig
       /\ (pc' = "getTx" \/ (pc = "getTx" /\ pc' \in {"eval", "sleep"}))
            => state'.anchorSig \in Range(newSigs')]_vars
CursorAdvancedThenReAnchored ==
    /\ pc = "sleep"
    /\ cyc.reanchored
    /\ newSigs # <<>>
    /\ state.anchorSig > newSigs[1]

\* C6: warm-up (no stored cursor) sets the cursor to the newest existing
\* signature with an empty window, and no transaction that existed when the
\* process was first started is ever in the window, in a snapshot of it or in
\* a dispatched window.
NoPreExistingProcessed ==
    /\ [](/\ \A s \in Sigs(state.outflows) : s > preExisting
          /\ \A s \in Sigs(loadState(file).outflows) : s > preExisting
          /\ \A i \in DOMAIN alerts : \A s \in Range(alerts[i]) : s > preExisting)
    /\ [][(pc = "warmup" /\ pc' = "poll")
            => /\ state'.anchorSig = Len(ledger)
               /\ state'.anchorSig >= preExisting
               /\ state'.outflows = <<>>]_vars
WindowFullBesidePreExisting ==
    /\ preExisting >= 1
    /\ ledger[1] = "pay"
    /\ Len(state.outflows) = WINDOW_OUTFLOWS

\* C7: the list fetchNewSignatures returns is ordered newest-first, has at
\* most SIG_FETCH_LIMIT elements and holds only signatures strictly newer than
\* the cursor it was called with.
PollResultNewerThanCursor ==
    pc = "polled" =>
        /\ Len(newSigs) <= SIG_FETCH_LIMIT
        /\ Descending(newSigs)
        /\ \A s \in Range(newSigs) : s > state.anchorSig
        /\ state.anchorSig = NoSig => newSigs = <<>>
PollOverflowedLimit ==
    /\ pc = "polled"
    /\ Len(newSigs) = SIG_FETCH_LIMIT
    /\ newSigs[Len(newSigs)] > state.anchorSig + 1

\* C8: a non-empty poll result moves the cursor to newSigs[0], outflow or not,
\* and no signature of an earlier poll of the run is returned by a later poll.
CursorAdvancesPastEveryPolled ==
    /\ [](pc = "polled" => Range(newSigs) \cap polled = {})
    /\ [][(pc = "polled" /\ newSigs # <<>>) => state'.anchorSig = newSigs[1]]_vars
PolledAgainAfterNonOutflows ==
    /\ pc = "polled"
    /\ newSigs # <<>>
    /\ polled # {}
    /\ \A s \in polled : ledger[s] = "in"
    /\ \A s \in polled : state.anchorSig >= s

\* C9: the window is ordered newest-first by ledger order, in memory and in
\* every snapshot.
WindowNewestFirst ==
    /\ NewestFirst(state.outflows)
    /\ NewestFirst(loadState(file).outflows)
BatchOfTwoInWindow ==
    /\ pc = "eval"
    /\ Len(newSigs) >= 2
    /\ Range(newSigs) \subseteq Sigs(state.outflows)

\* C10: sendDiscordText is only called with a window of at least
\* WINDOW_OUTFLOWS records of which at least REQUIRED_MATCH meet range +
\* five-digits.
DispatchOnlyWhenReady ==
    pc = "dispatch" =>
        /\ Len(state.outflows) >= WINDOW_OUTFLOWS
        /\ Len(Matches(state.outflows)) >= REQUIRED_MATCH
DispatchAtThreshold ==
    /\ pc = "dispatch"
    /\ Len(Matches(state.outflows)) = REQUIRED_MATCH
    /\ Len(state.outflows) > Len(Matches(state.outflows))

\* C11: the evaluation is a no-op when the match count of the window is below
\* the threshold or the key of the window equals lastAlertKey: the step goes
\* to the sleep, nothing is dispatched, and the cursor, the window,
\* lastAlertKey and the file are left as they were. (A kill of the process at
\* that point is not an evaluation.)
EvaluationNoop ==
    [][(/\ pc = "eval"
        /\ pc' # "boot"
        /\ \/ Len(Matches(state.outflows)) < REQUIRED_MATCH
           \/ state.lastAlertKey = makeAlertKey(state.outflows))
       => (/\ pc' = "sleep"
           /\ state' = state
           /\ alerts' = alerts
           /\ file' = file)]_vars

\* C11 witness: a cycle without any failure ended at the sleep with a full
\* window that has enough matches and whose key is already lastAlertKey
SuppressedRepeatKey ==
    /\ pc = "sleep"
    /\ faults = 0
    /\ Len(state.outflows) >= WINDOW_OUTFLOWS
    /\ Len(Matches(state.outflows)) >= REQUIRED_MATCH
    /\ state.lastAlertKey = makeAlertKey(state.outflows)

\* C12: a sendDiscordText call that throws is neither retried nor fatal: the
\* cycle of that call reaches its sleep with the window cleared, lastAlertKey
\* null, the cursor re-anchored to the newest signature and the saveState of
\* line 479 made.
FailedDispatchCycleCompletes ==
    (pc = "sleep" /\ cyc.triggered /\ cyc.sendFailed) =>
        /\ state.outflows = <<>>
        /\ state.lastAlertKey = NullKey
        /\ cyc.reanchored
        /\ state.anchorSig = cyc.newest

\* The pcs of the polling loop (lines 354-496). The steps the loop takes when
\* no call fails have no condition besides their pc, except the walk of the
\* batch (lines 363-390), which needs a current signature known to the ledger.
LoopPcs == {"poll", "polled", "getTx", "eval", "dispatch", "reanchor", "sleep"}
LoopCanStep ==
    pc = "getTx" => (idx \in 1..Len(newSigs) /\ Range(newSigs) \subseteq DOMAIN ledger)

\* C13: no error of a cycle ends the loop. Unless the process is killed, a step
\* taken inside the loop stays inside the loop; a call that throws to the
\* catch of line 491 (poll, detail fetch, re-anchor fetch) leads to the sleep;
\* the next cycle starts from the sleep and from nowhere else, so every cycle
\* sleeps exactly once; and the loop is never stuck in the walk of a batch.
LoopSurvivesErrors ==
    /\ []LoopCanStep
    /\ [][(pc \in LoopPcs /\ pc' # "boot") =>
            /\ pc' \in LoopPcs
            /\ (pc' = "poll" /\ pc # "poll") => pc = "sleep"
            /\ (pc = "sleep" /\ pc' # "sleep") => pc' = "poll"
            /\ (faults' > faults /\ pc' \notin {"eval", "dispatch", "getTx"}) => pc' = "sleep"]_vars

\* C13 witness: the re-anchor fetch of a triggered cycle threw and the loop
\* is at its sleep
SleepAfterReAnchorError ==
    /\ pc = "sleep"
    /\ cyc.triggered
    /\ ~cyc.reanchored

\* C14: a signature read that fails is never fatal, at warm-up included: the
\* process never exits because the newest-signature fetch of the warm-up
\* failed.
WarmUpFailureNotFatal == pc # "exited"

\* C15: when the detail fetch of one signature of a batch throws, only that
\* signature is skipped: a cycle reaches its sleep with every other signature
\* of its batch examined, so no outflow of the batch after the one at idx is
\* left out of the window.
BatchExaminedDespiteFailure ==
    (pc = "sleep" /\ newSigs # <<>>) =>
        \A k \in (idx + 1)..Len(newSigs) : OutLamports(TxOf(ledger[Ordered(newSigs)[k]])) = 0

\* C16: within a cycle no field of the state is modified before all network
\* calls of the cycle have completed: a step of the loop after which a call
\* of the cycle is still to be made (a detail fetch, the delivery, the
\* re-anchor fetch) leaves the in-memory state as it was.
NoMutationBeforeCallsComplete ==
    [][(pc \in LoopPcs /\ pc' \in {"getTx", "dispatch", "reanchor"}) => state' = state]_vars

\* C17: persisting a state and loading it gives an equal state: for the state
\* x the loop holds at any moment, loadState of the file a successful
\* saveState(x) writes has the same cursor, the same ordered window and the
\* same lastAlertKey; and every file the loop has written completely loads to
\* the state that was saved.
RoundTrip ==
    /\ [](loadState(saveState(state, inserted, file, "ok")) = state)
    /\ [](WellFormed(JSONstringify(state)))
    /\ [][(file' # file /\ file'.kind = "present" /\ WellFormed(file'.text))
            => loadState(file') = state']_vars

\* C17 witness: the file holds the snapshot of line 416, a full window with
\* its key as lastAlertKey, and loads to the state in memory
SnapshotWithKeyLoadsEqual ==
    /\ pc = "dispatch"
    /\ Len(state.outflows) = WINDOW_OUTFLOWS
    /\ state.lastAlertKey = makeAlertKey(state.outflows)
    /\ file.kind = "present"
    /\ file.text = JSONstringify(state)
    /\ loadState(file) = state

\* C18: when state.json is absent, cannot be read or does not parse, the
\* state after loading is the empty default, no error is raised and the file
\* is left alone: the null cursor sends the startup to the warm-up.
UnusableFileGivesDefault ==
    [][(/\ pc = "boot"
        /\ \/ file.kind = "absent"
           \/ ~WellFormed(file.text)
           \/ faults' > faults)
       => (/\ state' = DefaultState
           /\ pc' = "warmup"
           /\ file' = file)]_vars

\* C18 witness: the process is at its warm-up after loading a file that is
\* present and does not parse
WarmUpAfterCorruptFile ==
    /\ pc = "warmup"
    /\ file.kind = "present"
    /\ ~WellFormed(file.text)

\* A step that calls saveState (lines 346, 392, 416, 479)
SaveStep ==
    \/ pc = "warmup" /\ pc' = "poll"
    \/ pc = "getTx" /\ pc' = "eval"
    \/ pc = "eval" /\ pc' = "dispatch"
    \/ pc = "reanchor" /\ cyc'.reanchored

\* C19: a state write that fails raises nothing and the durable record keeps
\* the last successfully written state: after every saveState call made
\* while the file holds a completely written state, the file either holds the
\* text of the in-memory state (the write succeeded) or is exactly what it
\* was before the call (the write failed).
FailedWriteKeepsLastWritten ==
    [][(SaveStep /\ file.kind = "present" /\ WellFormed(file.text)) =>
        \/ file'.kind = "present" /\ file'.text = JSONstringify(state')
        \/ file' = file]_vars

\* One of the three required variables is undefined or empty
MissingEnv == \E n \in RequiredEnv : env[n] \in {"undefined", ""}

\* C20: when RPC_URL, WATCH_ADDRESS or DISCORD_WEBHOOK_URL is undefined or
\* empty at startup, the process aborts before the state is loaded: it goes
\* from the start to the abort and nowhere else, no poll and no dispatch is
\* ever made, and the in-memory state and state.json stay what they were at
\* the start.
MissingEnvAborts ==
    /\ [](MissingEnv =>
            /\ pc \in {"start", "aborted"}
            /\ state = DefaultState
            /\ file = AbsentFile
            /\ alerts = <<>>
            /\ polled = {}
            /\ newSigs = <<>>)
    /\ [][(MissingEnv /\ pc = "start") => pc' = "aborted"]_vars
    /\ [][pc = "aborted" => pc' = "aborted"]_vars

\* C20 witness: the process aborted with WATCH_ADDRESS set to the empty string
AbortedOnEmptyWatchAddress ==
    /\ pc = "aborted"
    /\ env["WATCH_ADDRESS"] = ""

\* ---------------------------------------------------------- function studies
\* The pure functions of the three files are studied one call at a time: the
\* watcher's variables rest, probe holds the function applied, its argument
\* and its result.
watcherVars == <<env, conf, ledger, state, file, pc, newSigs, idx, alerts, inserted, polled, cyc,
                 preExisting, faults>>
AtRest ==
    /\ env = GoodEnv
    /\ conf = SmallConf
    /\ ledger = <<>>
    /\ state = DefaultState
    /\ file = AbsentFile
    /\ pc = "study"
    /\ newSigs = <<>>
    /\ idx = 0
    /\ alerts = <<>>
    /\ inserted = <<>>
    /\ polled = {}
    /\ cyc = NoCycle
    /\ preExisting = 0
    /\ faults = 0

\* Amounts, in units of 1000 lamports, around the values where the
\* classifiers change their answer: 0, 0.1 SOL, 1.2345 SOL, 1.23455 SOL,
\* 9.9999 SOL, 10 SOL and 20 SOL
ProbeSpan == 101
AmountAnchors == {0, 100000, 1234500, 1234550, 9999900, 10000000, 20000000}
ProbeAmounts == {x \in {a + d : a \in AmountAnchors, d \in (-ProbeSpan)..ProbeSpan} : x >= 0}

\* isFiveDigitsTransferLamports of src/unnamed/part_000, lines 77-83
isFiveDigitsTransferLamports(lamports) ==
    LET scaled == Abs(lamports) \div CUT_DIVISOR
    IN scaled >= 0 /\ scaled <= FIVE_DIGITS_MAX

InitAmount ==
    /\ AtRest
    /\ probe \in {[fn |-> "amount", arg |-> a, out |-> 0] : a \in ProbeAmounts}

\* the truncating digit test of src/index.js and of part_000, and the 4dp cut
ApplyTruncating ==
    /\ probe.fn = "amount"
    /\ probe' = [fn |-> "truncating", arg |-> probe.arg,
                 out |-> [cut |-> isFiveDigitsLamports_4dpCut(probe.arg),
                          transfer |-> isFiveDigitsTransferLamports(probe.arg),
                          sol4 |-> lamportsToSol4String(probe.arg)]]
    /\ UNCHANGED watcherVars

\* The exact policy of src/unnamed/part_001, lines 556-586. LAMPORTS_PER_SOL_4DP
\* is 100000 lamports; a null result is the empty string here.
LAMPORTS_PER_SOL_4DP == 100
NullString == <<>>

lamportsToSol4ExactString(deltaLamports) ==
    LET v == Abs(deltaLamports)
        scaled == v \div LAMPORTS_PER_SOL_4DP
    IN IF v <= 0 THEN NullString
       ELSE IF v % LAMPORTS_PER_SOL_4DP # 0 THEN NullString
       ELSE <<scaled \div SOL4_FRAC, scaled % SOL4_FRAC>>

\* variant of isFiveDigitsByDestDeltaExact: the remainder is cut, not refused
isFiveDigitsByDestDeltaCut(deltaLamports) ==
    LET v == Abs(deltaLamports)
        scaled == v \div LAMPORTS_PER_SOL_4DP
    IN IF v <= 0 THEN FALSE ELSE scaled >= 0 /\ scaled <= FIVE_DIGITS_MAX

isFiveDigitsByDestDeltaExact(deltaLamports) ==
    LET v == Abs(deltaLamports)
        scaled == v \div LAMPORTS_PER_SOL_4DP
    IN IF v <= 0 THEN FALSE
       ELSE IF v % LAMPORTS_PER_SOL_4DP # 0 THEN FALSE
       ELSE scaled >= 0 /\ scaled <= FIVE_DIGITS_MAX

\* the exact digit test of part_001 and its formatter
ApplyExact ==
    /\ probe.fn = "amount"
    /\ probe' = [fn |-> "exact", arg |-> probe.arg,
                 out |-> [five |-> isFiveDigitsByDestDeltaExact(probe.arg),
                          sol4 |-> lamportsToSol4ExactString(probe.arg)]]
    /\ UNCHANGED watcherVars

NextAmount ==
    \/ ApplyTruncating
    \/ ApplyExact

SpecAmount == InitAmount /\ [][NextAmount]_vars

\* 10 SOL, the first amount whose 4dp cut has six digits
TenSol == 10 * LAMPORTS_PER_SOL

\* C21: under the truncating policy an amount of L >= 0 matches iff
\* floor(L / 100000 lamports) is in [0, 99999], that is iff L is below 10 SOL:
\* 9.9999 SOL matches, 10.0000 SOL does not, and what is finer than 4 decimals
\* is discarded by flooring (L and L cut to 4 decimals get the same answer and
\* the same 4dp string). The test of part_000 agrees.
TruncatingBoundary ==
    probe.fn = "truncating" =>
        LET L == probe.arg
            cutL == L - (L % CUT_DIVISOR)
        IN /\ probe.out.cut <=> (L < TenSol)
           /\ probe.out.transfer <=> (L < TenSol)
           /\ probe.out.cut <=> isFiveDigitsLamports_4dpCut(cutL)
           /\ probe.out.sol4 = lamportsToSol4String(cutL)
           /\ probe.out.sol4[1] * LAMPORTS_PER_SOL + probe.out.sol4[2] * CUT_DIVISOR = cutL

\* C21 witness: 9.999999 SOL was tested and matched, its remainder discarded
TruncatedJustBelowTenSol ==
    /\ probe.fn = "truncating"
    /\ probe.arg = TenSol - 1
    /\ probe.out.cut
    /\ probe.out.sol4 = <<9, 9999>>

\* What C22 says of the exact digit test: L matches iff L > 0, L is an exact
\* multiple of 100000 lamports and L / 100000 <= 99999
ExactMatchRule(L) ==
    /\ L > 0
    /\ L % LAMPORTS_PER_SOL_4DP = 0
    /\ L \div LAMPORTS_PER_SOL_4DP <= FIVE_DIGITS_MAX

WindowSpan == 2
WindowAmounts == {50000, 99999, 100000, 1234500, 9999900, 10000000, 20000000, 20000001}
AmountLists == UNION {[1..n -> WindowAmounts] : n \in 0..WindowSpan}
WindowFrom(amounts) ==
    [i \in 1..Len(amounts) |->
        [signature |-> Len(amounts) - i + 1, outLamports |-> amounts[i],
         outflowSol4 |-> lamportsToSol4String(amounts[i])]]

InitWindow ==
    /\ AtRest
    /\ probe \in {[fn |-> "window", arg |-> WindowFrom(a), out |-> 0] : a \in AmountLists}

\* lines 402-406: considered, matches and the two counts
CountWindow ==
    /\ probe.fn = "window"
    /\ probe' = [fn |-> "counted", arg |-> probe.arg,
                 out |-> [inRangeCount |-> Len(Considered(probe.arg)),
                          fiveDigitsCount |-> Len(Matches(probe.arg)),
                          matches |-> makeAlertKey(Matches(probe.arg))]]
    /\ UNCHANGED watcherVars

SpecWindow == InitWindow /\ [][CountWindow]_vars

\* MIN_SOL and MAX_SOL as amounts
MinAmount == (MIN_SOL_TENTHS * LAMPORTS_PER_SOL) \div 10
MaxAmount == MAX_SOL * LAMPORTS_PER_SOL

\* C23: a window record is counted as a match iff its amount lies within
\* [MIN_SOL, MAX_SOL], both endpoints included, and satisfies the digit
\* pattern (it is below 10 SOL); hence match count <= in-range count <=
\* window length, and an amount below MIN_SOL is never counted.
MatchIffInRangeAndPattern ==
    probe.fn = "counted" =>
        LET w == probe.arg
            inRange == {i \in DOMAIN w :
                          w[i].outLamports >= MinAmount /\ w[i].outLamports <= MaxAmount}
            matching == {i \in inRange : w[i].outLamports < TenSol}
        IN /\ probe.out.inRangeCount = Cardinality(inRange)
           /\ probe.out.fiveDigitsCount = Cardinality(matching)
           /\ Range(probe.out.matches) = {w[i].signature : i \in matching}
           /\ probe.out.fiveDigitsCount <= probe.out.inRangeCount
           /\ probe.out.inRangeCount <= Len(w)
           /\ \A i \in DOMAIN w :
                w[i].outLamports < MinAmount => w[i].signature \notin Range(probe.out.matches)

\* C23 witness: a window of 0.1 SOL (the lower endpoint) and 0.05 SOL was
\* counted: one record in range, the same one matching
CountedAtLowerEndpoint ==
    /\ probe.fn = "counted"
    /\ Len(probe.arg) = 2
    /\ probe.arg[1].outLamports = MinAmount
    /\ probe.arg[2].outLamports < MinAmount
    /\ probe.out.inRangeCount = 1
    /\ probe.out.fiveDigitsCount = 1

\* Transactions of the watched account: at most TransferSpan system transfers
\* out of it, of 0.05, 0.06, 1.2345 or 19 SOL, and the change of its balance:
\* the transfers and a fee of 5000 lamports, a fee alone, or an income
TransferSpan == 2
TransferAmounts == {50000, 60000, 1234500, 19000000}
TransferLists == UNION {[1..n -> TransferAmounts] : n \in 0..TransferSpan}
StartBalance == 50000000
FeeUnits == 5
StudyTxs ==
    {[isNull |-> FALSE, transfers |-> t, pre |-> StartBalance, post |-> StartBalance - d] :
        t \in TransferLists, d \in {FeeUnits, -1000}}
    \cup {[isNull |-> FALSE, transfers |-> t, pre |-> StartBalance,
           post |-> StartBalance - SumSeq(t) - FeeUnits] : t \in TransferLists}

InitTx ==
    /\ AtRest
    /\ probe \in {[fn |-> "tx", arg |-> tx, out |-> 0] : tx \in StudyTxs}

\* lines 364-389 for one fetched transaction and an empty window, then the
\* counts of lines 402-406
IngestOne ==
    /\ probe.fn = "tx"
    /\ LET tx == probe.arg
           window == IF OutLamports(tx) > 0
                     THEN InsertOutflow(<<>>, OutflowRecord(1, tx))
                     ELSE <<>>
       IN probe' = [fn |-> "ingested", arg |-> tx,
                    out |-> [window |-> window,
                             fiveDigitsCount |-> Len(Matches(window))]]
    /\ UNCHANGED watcherVars

SpecTx == InitTx /\ [][IngestOne]_vars

\* A transfer event that satisfies range and digit pattern
Qualifies(lamports) ==
    /\ lamports >= MinAmount
    /\ lamports <= MaxAmount
    /\ lamports < TenSol

\* C24: a window transaction adds at most one to the match count, and a
\* transaction with at least one outgoing transfer that satisfies range and
\* digit pattern adds exactly one, whatever its other transfers.
QualifyingTransferCountsOnce ==
    probe.fn = "ingested" =>
        /\ probe.out.fiveDigitsCount <= 1
        /\ (\E i \in DOMAIN probe.arg.transfers : Qualifies(probe.arg.transfers[i]))
              => probe.out.fiveDigitsCount = 1

\* C28: every record in the window belongs to a transaction in which the
\* watched account is the source of at least one native transfer; a
\* transaction in which its balance only decreases for another reason (a fee)
\* is never inserted.
WindowRecordHasTransferOut ==
    probe.fn = "ingested" =>
        (probe.out.window # <<>> => probe.arg.transfers # <<>>)

\* ---------------------------------------------------------------------------
\* Study of extractTransfersFromParsed over the shapes of a parsed transaction
\* ---------------------------------------------------------------------------

ParsedSpan == 1

\* info.lamports as the RPC may deliver it: a number, a numeric string, a
\* string that is no number, or nothing
LamportsValues ==
    {[kind |-> "num", val |-> v] : v \in {-1, 0, 5000}}
    \cup {[kind |-> "str", val |-> 5000], [kind |-> "nan", val |-> 0],
          [kind |-> "missing", val |-> 0]}

NullIx ==
    [isNull |-> TRUE, prog |-> "none", hasParsed |-> FALSE, source |-> "none",
     dest |-> "none", lamports |-> [kind |-> "missing", val |-> 0]]

ParsedIxs ==
    {NullIx}
    \cup {[isNull |-> FALSE, prog |-> p, hasParsed |-> h, source |-> "watch",
           dest |-> "dest", lamports |-> [kind |-> "num", val |-> 5000]] :
             p \in {"system", "other"}, h \in BOOLEAN}
    \cup {[isNull |-> FALSE, prog |-> "system", hasParsed |-> TRUE, source |-> s,
           dest |-> d, lamports |-> [kind |-> "num", val |-> 5000]] :
             s \in {"watch", "other", "none"}, d \in {"dest", "none"}}
    \cup {[isNull |-> FALSE, prog |-> "system", hasParsed |-> TRUE,
           source |-> "watch", dest |-> "dest", lamports |-> l] :
             l \in LamportsValues}

IxLists == UNION {[1..n -> ParsedIxs] : n \in 0..ParsedSpan}

\* an entry of meta.innerInstructions: null, an object without instructions,
\* or an object with a list of instructions
InnerItems ==
    {[isNull |-> TRUE, hasInstructions |-> FALSE, instructions |-> <<>>],
     [isNull |-> FALSE, hasInstructions |-> FALSE, instructions |-> <<>>]}
    \cup {[isNull |-> FALSE, hasInstructions |-> TRUE, instructions |-> l] :
             l \in IxLists}

InnerLists == {<<>>} \cup {<<i>> : i \in InnerItems}

ParsedTxs ==
    {[isNull |-> TRUE, hasMessage |-> FALSE, hasOuter |-> FALSE, outer |-> <<>>,
      hasMeta |-> FALSE, hasInner |-> FALSE, inner |-> <<>>]}
    \cup {[isNull |-> FALSE, hasMessage |-> m, hasOuter |-> FALSE, outer |-> <<>>,
           hasMeta |-> t, hasInner |-> FALSE, inner |-> <<>>] :
             m \in BOOLEAN, t \in BOOLEAN}
    \cup {[isNull |-> FALSE, hasMessage |-> TRUE, hasOuter |-> TRUE, outer |-> o,
           hasMeta |-> TRUE, hasInner |-> TRUE, inner |-> i] :
             o \in IxLists, i \in InnerLists}

\* Number(info.lamports || 0), line 174: -1 stands for NaN
NumberOf(l) ==
    CASE l.kind = "num" -> l.val
      [] l.kind = "str" -> l.val
      [] l.kind = "missing" -> 0
      [] OTHER -> -1

\* lines 157-178: the events one instruction adds to out
handleParsedIx(ix, watchBase58) ==
    IF ix.isNull THEN <<>>
    ELSE IF ~ix.hasParsed \/ ix.prog # "system" THEN <<>>
    ELSE IF ix.source = "none" \/ ix.dest = "none" THEN <<>>
    ELSE IF ix.source # watchBase58 THEN <<>>
    ELSE IF ix.lamports.kind = "nan" \/ NumberOf(ix.lamports) <= 0 THEN <<>>
    ELSE <<[source |-> ix.source, to |-> ix.dest, lamports |-> NumberOf(ix.lamports)]>>

RECURSIVE HandleAll(_, _)
HandleAll(ixs, watchBase58) ==
    IF ixs = <<>> THEN <<>>
    ELSE handleParsedIx(Head(ixs), watchBase58) \o HandleAll(Tail(ixs), watchBase58)

RECURSIVE HandleInner(_, _)
HandleInner(items, watchBase58) ==
    IF items = <<>> THEN <<>>
    ELSE (IF Head(items).hasInstructions
          THEN HandleAll(Head(items).instructions, watchBase58)
          ELSE <<>>) \o HandleInner(Tail(items), watchBase58)

\* lines 154-191: the result is the list out, or the TypeError that the read
\* of innerItem.instructions raises at line 187 when innerItem is null
extractTransfersFromParsed(parsedTx, watchBase58) ==
    LET outer == IF ~parsedTx.isNull /\ parsedTx.hasMessage /\ parsedTx.hasOuter
                 THEN parsedTx.outer ELSE <<>>
        inner == IF ~parsedTx.isNull /\ parsedTx.hasMeta /\ parsedTx.hasInner
                 THEN parsedTx.inner ELSE <<>>
    IN IF \E k \in 1..Len(inner) : inner[k].isNull
       THEN [raised |-> TRUE, out |-> <<>>]
       ELSE [raised |-> FALSE,
             out |-> HandleAll(outer, watchBase58) \o HandleInner(inner, watchBase58)]

InitParsed ==
    /\ AtRest
    /\ probe \in {[fn |-> "parsed", arg |-> p, out |-> 0] : p \in ParsedTxs}

Extract ==
    /\ probe.fn = "parsed"
    /\ probe' = [fn |-> "extracted", arg |-> probe.arg,
                 out |-> extractTransfersFromParsed(probe.arg, "watch")]
    /\ UNCHANGED watcherVars

SpecParsed == InitParsed /\ [][Extract]_vars

\* C25: extractTransfersFromParsed never raises, whatever the shape of the
\* parsed transaction (null, missing message, missing meta, a null entry in
\* the instruction or inner-instruction lists, non-numeric amounts); it
\* returns a list in which every event has the watched address as source and
\* a positive amount.
ExtractNeverRaises ==
    probe.fn = "extracted" =>
        /\ ~probe.out.raised
        /\ \A k \in 1..Len(probe.out.out) :
              /\ probe.out.out[k].source = "watch"
              /\ probe.out.out[k].lamports > 0

\* ---------------------------------------------------------------------------
\* Study of the message built at a trigger (lines 418-469)
\* ---------------------------------------------------------------------------

PREVIEW_DEST_LIMIT == 2
PayloadSpan == 2

\* the transfers out of the watched account, with their destination
PayloadTransfers ==
    {[to |-> d, lamports |-> a] : d \in {"walletA", "walletB", "walletC"},
                                   a \in {1000000, 50000}}
PayloadTxs == UNION {[1..n -> PayloadTransfers] : n \in 1..PayloadSpan}

\* a full window under SmallConf, newest first: the transactions behind its
\* records
PayloadWindows == [1..SmallConf.WINDOW_OUTFLOWS -> PayloadTxs]

\* the transaction as lines 364-377 see it
PayloadTx(transfers) ==
    LET amounts == [i \in 1..Len(transfers) |-> transfers[i].lamports]
    IN [isNull |-> FALSE, transfers |-> amounts, pre |-> StartBalance,
        post |-> StartBalance - SumSeq(amounts) - FeeUnits]

\* state.outflows for the window: the signature of a record is its position
PayloadWindow(txs) == [i \in 1..Len(txs) |-> OutflowRecord(i, PayloadTx(txs[i]))]

\* lines 438-447 for the transfers of one match
RECURSIVE LinesOf(_)
LinesOf(transfers) ==
    IF transfers = <<>> THEN <<>>
    ELSE LET t == Head(transfers)
         IN (IF t.lamports # 0 /\ inSolRangeLamports(t.lamports)
                /\ isFiveDigitsLamports_4dpCut(t.lamports)
             THEN <<[sol4 |-> lamportsToSol4String(t.lamports), destWallet |-> t.to]>>
             ELSE <<>>) \o LinesOf(Tail(transfers))

\* lines 421-448: the lines of every match, in the order of matches; the
\* detail fetch of a match returns the transaction's transfers
RECURSIVE MatchedLines(_, _)
MatchedLines(matches, txs) ==
    IF matches = <<>> THEN <<>>
    ELSE LinesOf(txs[Head(matches).signature]) \o MatchedLines(Tail(matches), txs)

\* destSet (lines 419 and 446) in insertion order
RECURSIVE DestSet(_)
DestSet(lines) ==
    IF lines = <<>> THEN <<>>
    ELSE LET front == DestSet(SubSeq(lines, 1, Len(lines) - 1))
             d == lines[Len(lines)].destWallet
         IN IF d \in Range(front) THEN front ELSE Append(front, d)

InitPayload ==
    /\ AtRest
    /\ probe \in {[fn |-> "window", arg |-> w, out |-> 0] : w \in PayloadWindows}

\* lines 401-469: the arguments of sendDiscordText, when the window triggers
BuildPayload ==
    /\ probe.fn = "window"
    /\ LET outflows == PayloadWindow(probe.arg)
           st == [DefaultState EXCEPT !.outflows = outflows]
           matchedLines == MatchedLines(Matches(outflows), probe.arg)
       IN probe' = [fn |-> "payload", arg |-> probe.arg,
                    out |-> [sent |-> ShouldTrigger(st),
                             window |-> outflows,
                             matchedLines |-> matchedLines,
                             destPreview |-> Take(DestSet(matchedLines), PREVIEW_DEST_LIMIT),
                             windowSize |-> Len(outflows)]]
    /\ UNCHANGED watcherVars

SpecPayload == InitPayload /\ [][BuildPayload]_vars

\* C27: in every dispatch the number of (formatted amount, destination) pairs
\* and the number of destinations in the preview are both at most
\* PREVIEW_DEST_LIMIT, and the reported window size is the length of the
\* window at the trigger.
PayloadWithinPreviewLimit ==
    (probe.fn = "payload" /\ probe.out.sent) =>
        /\ Len(probe.out.matchedLines) <= PREVIEW_DEST_LIMIT
        /\ Len(probe.out.destPreview) <= PREVIEW_DEST_LIMIT
        /\ probe.out.windowSize = Len(probe.out.window)

\* ---------------------------------------------------------------------------
\* Study of the evaluation of src/unnamed/part_000 (lines 380-444), which
\* fetches the details of every window record again in every cycle
\* ---------------------------------------------------------------------------

\* the window under SmallConf: the transfers out of the watched account in
\* the transaction of each record
RefetchWindows ==
    [1..SmallConf.WINDOW_OUTFLOWS -> {t \in TransferLists : t # <<>>}]

\* whether getParsedTransaction and getTransaction return for one record
FetchOutcomes == [parsed : BOOLEAN, compiled : BOOLEAN]

\* lines 390-408: the transfers the evaluation sees for one record
RefetchedTransfers(transfers, fetch) ==
    LET fromParsed == IF fetch.parsed THEN transfers ELSE <<>>
    IN IF fromParsed # <<>> THEN fromParsed
       ELSE IF fetch.compiled THEN transfers ELSE <<>>

\* lines 411-434: the flags of one record; the walk stops at the first
\* transfer that passes both tests
RECURSIVE TxFlags(_)
TxFlags(transfers) ==
    IF transfers = <<>> THEN [hasInRange |-> FALSE, hasFiveDigits |-> FALSE]
    ELSE LET t == Head(transfers)
             rest == TxFlags(Tail(transfers))
         IN IF t = 0 \/ ~inSolRangeLamports(t) THEN rest
            ELSE IF ~isFiveDigitsTransferLamports(t)
                 THEN [hasInRange |-> TRUE, hasFiveDigits |-> rest.hasFiveDigits]
                 ELSE [hasInRange |-> TRUE, hasFiveDigits |-> TRUE]

\* lines 380-444: the counts and the decision for a window whose records carry
\* the signatures 1..Len(window), under the state's lastAlertKey
EvaluateRefetching(window, fetches, lastAlertKey) ==
    LET flags == [i \in 1..Len(window) |-> TxFlags(RefetchedTransfers(window[i], fetches[i]))]
        inRangeCount == Cardinality({i \in 1..Len(window) : flags[i].hasInRange})
        fiveDigitsCount == Cardinality({i \in 1..Len(window) : flags[i].hasFiveDigits})
    IN [inRangeCount |-> inRangeCount,
        fiveDigitsCount |-> fiveDigitsCount,
        trigger |-> /\ Len(window) >= WINDOW_OUTFLOWS
                    /\ fiveDigitsCount >= REQUIRED_MATCH
                    /\ lastAlertKey # [i \in 1..Len(window) |-> i]]

NotEvaluated == [inRangeCount |-> -1, fiveDigitsCount |-> -1, trigger |-> FALSE]

InitRefetch ==
    /\ AtRest
    /\ probe \in {[fn |-> "refetch", arg |-> w, out |-> 0] : w \in RefetchWindows}

\* one cycle's evaluation of the window
EvaluateFirst ==
    /\ probe.fn = "refetch"
    /\ \E fetches \in [1..Len(probe.arg) -> FetchOutcomes] :
          probe' = [fn |-> "evaluated", arg |-> probe.arg,
                    out |-> [first |-> EvaluateRefetching(probe.arg, fetches, NullKey),
                             second |-> NotEvaluated]]
    /\ UNCHANGED watcherVars

\* a later cycle's evaluation of the same window (no new signature, no
\* trigger in between)
EvaluateAgain ==
    /\ probe.fn = "evaluated"
    /\ ~probe.out.first.trigger
    /\ \E fetches \in [1..Len(probe.arg) -> FetchOutcomes] :
          probe' = [fn |-> "evaluatedAgain", arg |-> probe.arg,
                    out |-> [first |-> probe.out.first,
                             second |-> EvaluateRefetching(probe.arg, fetches, NullKey)]]
    /\ UNCHANGED watcherVars

NextRefetch == EvaluateFirst \/ EvaluateAgain

SpecRefetch == InitRefetch /\ [][NextRefetch]_vars

\* C29: in the variant that fetches the details again in every cycle, two
\* evaluations of the same window give the same in-range count, the same
\* match count and the same decision, whatever the fetches return and
\* whether or not they fail.
RefetchEvaluationDeterministic ==
    probe.fn = "evaluatedAgain" => probe.out.second = probe.out.first

\* ---------------------------------------------------------------------------
\* lastAlertKey inside one run of the process
\* ---------------------------------------------------------------------------

\* a step of a running process: neither the load at its start (LoadState
\* leaves "boot") nor its end (Crash and Restart lead to "boot")
RunStep == pc # "boot" /\ pc' # "boot"

\* C30: inside a run, a null lastAlertKey stays null on every step except the
\* marking that enters the dispatch, and the dispatch resets it; so in a run
\* that started with a null lastAlertKey the key is null at the start of every
\* cycle, and an evaluation that finds the window full and the threshold
\* reached always dispatches (the suppression branch is not taken). A non-null
\* key outside the dispatch can only come from the state file loaded at the
\* start of a run.
NullKeyStaysNullInRun ==
    /\ [](pc = "dispatch" => state.lastAlertKey # NullKey)
    /\ [][RunStep =>
            /\ state.lastAlertKey = NullKey =>
                  (state'.lastAlertKey = NullKey \/ pc' = "dispatch")
            /\ (pc = "dispatch" /\ pc' # "dispatch") => state'.lastAlertKey = NullKey
            /\ (/\ pc = "eval"
                /\ state.lastAlertKey = NullKey
                /\ Len(state.outflows) >= WINDOW_OUTFLOWS
                /\ Len(Matches(state.outflows)) >= REQUIRED_MATCH) => pc' = "dispatch"]_vars
    /\ [][(pc = "boot" /\ state'.lastAlertKey # NullKey) =>
            (file.kind = "present" /\ loadState(file).lastAlertKey # NullKey)]_vars

\* a cycle of a run has triggered and dispatched, and at its end the key is
\* null again
NullKeyAfterTriggerInRun ==
    pc = "sleep" /\ cyc.triggered /\ state.lastAlertKey = NullKey /\ alerts # <<>>

\* ---------------------------------------------------------------------------
\* The scenario of three outflows: capacity 3, threshold 2, range [0.1, 20]
\* ---------------------------------------------------------------------------

ScenarioConf == [WINDOW_OUTFLOWS |-> 3, REQUIRED_MATCH |-> 2]

\* the transactions of the watched account after the watcher has started:
\* outflows of 1.2345, 0.05 and 2.3456 SOL, in this order
ScenarioScript == <<"pay", "dust", "pay2">>

\* one run of the watcher, started on an account with no history or with one
\* incoming transaction
InitScenario ==
    /\ env = GoodEnv
    /\ conf = ScenarioConf
    /\ ledger \in {<<>>, <<"in">>}
    /\ state = DefaultState
    /\ file = AbsentFile
    /\ pc = "start"
    /\ newSigs = <<>>
    /\ idx = 0
    /\ alerts = <<>>
    /\ inserted = <<>>
    /\ polled = {}
    /\ cyc = NoCycle
    /\ preExisting = Len(ledger)
    /\ faults = 0
    /\ probe = NoProbe

\* the next transaction of the script reaches the ledger, at any moment the
\* running loop can observe
ScriptedTx ==
    /\ pc \notin {"start", "aborted", "boot", "polled", "eval"}
    /\ Len(ledger) - preExisting < Len(ScenarioScript)
    /\ ledger' = Append(ledger, ScenarioScript[Len(ledger) - preExisting + 1])
    /\ UNCHANGED <<probe, env, conf, state, file, pc, newSigs, idx, alerts, inserted, polled, cyc,
                   preExisting, faults>>

\* the loop of lines 354-496 in one run of the process
NextScenario ==
    \/ ScriptedTx
    \/ Startup
    \/ LoadState
    \/ WarmUp
    \/ WarmUpFails
    \/ Poll
    \/ PollFails
    \/ Advance
    \/ GetTx
    \/ GetTxFails
    \/ EvaluateTrigger
    \/ EvaluateNoop
    \/ Dispatch
    \/ ReAnchor
    \/ ReAnchorFails
    \/ Sleep

SpecScenario == InitScenario /\ [][NextScenario]_vars

\* the three outflows were ingested in order (the window is newest first) and
\* the cycle is at its evaluation
ScenarioWindow ==
    /\ pc = "eval"
    /\ [i \in 1..Len(state.outflows) |-> state.outflows[i].outLamports]
          = <<2345600, 50000, 1234500>>

\* C26: with capacity 3, threshold 2 and range [0.1, 20], once the outflows
\* of 1.2345, 0.05 and 2.3456 SOL are ingested in this order exactly two
\* records qualify (both in range and matching), the evaluation goes to the
\* dispatch and the dispatcher is called once; it is never called a second
\* time in the cycles that follow, and after the dispatch the window is empty
\* and the cursor is the newest signature observed at the trigger.
ScenarioDispatchesOnce ==
    /\ [](ScenarioWindow =>
            /\ Len(Considered(state.outflows)) = 2
            /\ Len(Matches(state.outflows)) = 2
            /\ alerts = <<>>)
    /\ [][ScenarioWindow => pc' = "dispatch"]_vars
    /\ [][(pc = "dispatch" /\ pc' # "dispatch") => Len(alerts') = 1]_vars
    /\ [](Len(alerts) <= 1)
    /\ []((alerts # <<>> /\ pc # "dispatch") => state.outflows = <<>>)
    /\ []((alerts # <<>> /\ pc \notin {"dispatch", "reanchor"}) =>
            /\ state.anchorSig = Len(ledger)
            /\ state.anchorSig = alerts[1][1])

\* a later cycle evaluates the emptied window after the one dispatch
ScenarioLaterCycleAfterDispatch ==
    conf = ScenarioConf /\ pc = "eval" /\ Len(alerts) = 1 /\ ~cyc.triggered

\* ---------------------------------------------------------------------------
\* The window and the cursor over cycles, errors and restarts
\* ---------------------------------------------------------------------------

NoDuplicate(outflows) == Cardinality(Sigs(outflows)) = Len(outflows)

\* C31: the window never holds the same signature twice, in memory and in
\* every persisted snapshot, over any sequence of cycles, cycle errors,
\* crashes and restarts.
WindowHasNoDuplicate ==
    /\ NoDuplicate(state.outflows)
    /\ NoDuplicate(loadState(file).outflows)

\* a window of two records of which one was loaded from the file after a
\* restart (it is in no poll result of this run) and one was polled since
WindowGrownAfterRestart ==
    /\ Len(state.outflows) >= 2
    /\ \E s \in Sigs(state.outflows) : s \notin polled \cup Range(newSigs)
    /\ \E s \in Sigs(state.outflows) : s \in Range(newSigs)

\* C32: while the cursor is null the poll returns the empty list whatever the
\* ledger holds, so once the loop runs with a null cursor (the warm-up found
\* no signature) every later step of the same run leaves the cursor, the
\* window and lastAlertKey as they are, nothing is inserted and nothing is
\* dispatched; only a restart ends this.
NullCursorRunIsInert ==
    /\ [](pc = "polled" /\ state.anchorSig = NoSig => newSigs = <<>>)
    /\ [][(state.anchorSig = NoSig /\ pc \in LoopPcs /\ pc' # "boot") =>
            /\ pc' \in LoopPcs
            /\ state' = state
            /\ inserted' = inserted
            /\ alerts' = alerts]_vars

\* a run with a null cursor evaluates an empty window although the ledger has
\* gained enough outflows since the start to fill it
NullCursorIgnoresOutflows ==
    /\ pc = "eval"
    /\ state.anchorSig = NoSig
    /\ state.outflows = <<>>
    /\ Cardinality({s \in DOMAIN ledger : ledger[s] = "pay"}) >= WINDOW_OUTFLOWS

\* the signatures of the cycle's batch that no detail fetch has returned for:
\* at the sleep, those from position idx of the walk on
Unexamined == {Ordered(newSigs)[k] : k \in {j \in 1..Len(newSigs) : j >= idx}}

\* C33: within one run the cursor is at the newest signature of the batch
\* before any transaction of the batch is fetched, and no signature of an
\* earlier poll of the run is fetched in a later cycle; so the signatures of
\* a batch that were not examined when a detail fetch threw are behind the
\* cursor, are not in the window, and are never examined in that run.
AbandonedBatchNeverExamined ==
    /\ [](pc = "getTx" =>
            /\ state.anchorSig = newSigs[1]
            /\ \A k \in idx..Len(newSigs) : Ordered(newSigs)[k] \notin polled)
    /\ [](pc = "sleep" =>
            \A s \in Unexamined : s <= state.anchorSig /\ s \notin Sigs(state.outflows))
    /\ [][(pc = "poll" /\ pc' \in {"polled", "sleep"}) =>
            polled \cup Range(newSigs) \subseteq polled']_vars

\* a later poll of the run returned a new batch although two outflows polled
\* before are in no window and nothing was ever dispatched: their batch was
\* abandoned
PolledPastAbandonedOutflows ==
    /\ pc = "polled"
    /\ newSigs # <<>>
    /\ alerts = <<>>
    /\ state.outflows = <<>>
    /\ \E s1, s2 \in polled :
          s1 < s2 /\ ledger[s1] = "pay" /\ ledger[s2] = "pay" /\ s1 > preExisting

\* what a saveState call of snapshot st can leave in place of file f
SaveAttempts(st, ins, f) == {saveState(st, ins, f, outcome) : outcome \in SaveOutcomes}

\* C34: in every trigger the steps come in this order: lastAlertKey is set to
\* the key of the window and a state write is attempted; then the dispatcher
\* is called, and whether it returned or failed the window and lastAlertKey
\* are cleared; then the cursor is re-anchored and a state write is attempted
\* (neither when the re-anchor fetch throws). The dispatcher is never called
\* while lastAlertKey differs from the key of the current window.
TriggerStepsInOrder ==
    /\ [](pc = "dispatch" =>
            /\ state.lastAlertKey = makeAlertKey(state.outflows)
            /\ cyc.triggered)
    /\ [](pc = "reanchor" =>
            /\ state.outflows = <<>>
            /\ state.lastAlertKey = NullKey
            /\ cyc.triggered)
    /\ [][(pc # "dispatch" /\ pc' = "dispatch") =>
            /\ pc = "eval"
            /\ state' = [state EXCEPT !.lastAlertKey = makeAlertKey(state.outflows)]
            /\ file' \in SaveAttempts(state', inserted, file)
            /\ alerts' = alerts]_vars
    /\ [][(alerts' # alerts) =>
            /\ pc = "dispatch"
            /\ pc' = "reanchor"
            /\ alerts' = Append(alerts, state.lastAlertKey)
            /\ state' = [state EXCEPT !.outflows = <<>>, !.lastAlertKey = NullKey]
            /\ file' = file]_vars
    /\ [][(pc = "reanchor" /\ pc' = "sleep") =>
            /\ alerts' = alerts
            /\ \/ /\ cyc'.reanchored
                  /\ state' = [state EXCEPT !.anchorSig = fetchNewestSignature(ledger)]
                  /\ file' \in SaveAttempts(state', <<>>, file)
               \/ /\ ~cyc'.reanchored
                  /\ state' = state
                  /\ file' = file]_vars

\* a trigger ran through all its steps although the dispatcher failed, and
\* the last write succeeded
TriggerCompletedAfterFailedSend ==
    /\ pc = "sleep"
    /\ cyc.triggered
    /\ cyc.sendFailed
    /\ cyc.reanchored
    /\ alerts # <<>>
    /\ file.kind = "present"
    /\ loadState(file) = state

\* the state written by line 415: a full window and lastAlertKey equal to its key
MarkedForDispatch(st) ==
    /\ Len(st.outflows) >= WINDOW_OUTFLOWS
    /\ st.lastAlertKey = makeAlertKey(st.outflows)

\* C35: delivery is at-most-once, not at-least-once. A process started on a
\* state file that holds lastAlertKey equal to the key of its full window
\* (written by line 415 of a trigger that was killed before or after its
\* dispatcher call) loads that state or, when the file cannot be read, the
\* default state, and dispatches nothing while loading; and from any state
\* outside the dispatch in which lastAlertKey is the key of the full window,
\* no step calls the dispatcher or enters the dispatch, and lastAlertKey
\* stays as it is as long as the window holds the same records.
MarkedWindowNeverDispatched ==
    /\ [][(pc = "boot" /\ pc' # "boot" /\ MarkedForDispatch(loadState(file))) =>
            /\ state' \in {loadState(file), DefaultState}
            /\ alerts' = alerts
            /\ pc' \in {"poll", "warmup"}]_vars
    /\ [][(pc \notin {"dispatch", "boot"} /\ pc' # "boot" /\ MarkedForDispatch(state)) =>
            /\ alerts' = alerts
            /\ pc' # "dispatch"
            /\ state'.outflows = state.outflows =>
                  state'.lastAlertKey = state.lastAlertKey]_vars

\* after a kill between the write of line 415 and the dispatcher call the
\* restarted process has evaluated the loaded window and sleeps, and nothing
\* was ever dispatched
AlertLostAfterRestart ==
    /\ pc = "sleep"
    /\ MarkedForDispatch(state)
    /\ alerts = <<>>
    /\ ~cyc.triggered
    /\ faults = 0

\* ---------------------------------------------------------------------------
\* The transactions a re-anchor passes over
\* ---------------------------------------------------------------------------

\* the watcher with a record, kept in probe.out, of the signatures every
\* re-anchor has passed over
InitSkipped ==
    /\ env = GoodEnv
    /\ conf = SmallConf
    /\ ledger \in InitialLedgers
    /\ state = DefaultState
    /\ file = AbsentFile
    /\ pc = "start"
    /\ newSigs = <<>>
    /\ idx = 0
    /\ alerts = <<>>
    /\ inserted = <<>>
    /\ polled = {}
    /\ cyc = NoCycle
    /\ preExisting = Len(ledger)
    /\ faults = 0
    /\ probe = [fn |-> "skipped", arg |-> 0, out |-> {}]

\* lines 478-479, as ReAnchor. The cursor before the fetch is the one the
\* cycle's poll left (line 360), so the signatures between it and the fetched
\* one are those the ledger appended after the poll.
ReAnchorSkipping ==
    /\ pc = "reanchor"
    /\ \E outcome \in SaveOutcomes :
        /\ faults + FaultCost(outcome) <= MaxFaults
        /\ faults' = faults + FaultCost(outcome)
        /\ state' = [state EXCEPT !.anchorSig = fetchNewestSignature(ledger)]
        /\ file' = saveState(state', inserted, file, outcome)
    /\ cyc' = [cyc EXCEPT !.reanchored = TRUE, !.newest = Len(ledger)]
    /\ pc' = "sleep"
    /\ probe' = [probe EXCEPT !.out = @ \cup ((state.anchorSig + 1)..Len(ledger))]
    /\ UNCHANGED <<env, conf, ledger, newSigs, idx, alerts, inserted, polled, preExisting>>

NextSkipped ==
    \/ AppendTx
    \/ Startup
    \/ LoadState
    \/ WarmUp
    \/ WarmUpFails
    \/ Poll
    \/ PollFails
    \/ Advance
    \/ GetTx
    \/ GetTxFails
    \/ EvaluateTrigger
    \/ EvaluateNoop
    \/ Dispatch
    \/ ReAnchorSkipping
    \/ ReAnchorFails
    \/ Sleep
    \/ Crash
    \/ Restart

SpecSkipped == InitSkipped /\ [][NextSkipped]_vars

\* C36: the transactions the ledger appends between a trigger cycle's poll
\* and its re-anchor fetch are never returned by a later poll, never inserted
\* into a window and never counted in an alert.
PassedOverNeverProcessed ==
    probe.fn = "skipped" =>
        \A s \in probe.out :
            /\ pc \in {"polled", "getTx"} => s \notin Range(newSigs)
            /\ s \notin Sigs(state.outflows)
            /\ \A i \in DOMAIN alerts : s \notin Range(alerts[i])
====
